---- MODULE Spec2Model ----
(***************************************************************************)
(* zstr.h: a growable byte string with an inline (SSO) form and a heap     *)
(* form.  The model keeps the struct fields, the inline buffer, and a heap *)
(* of byte buffers addressed by small integers.  C indices are 0-based;    *)
(* the sequences below are 1-based, so data[k] in C is mem[k + 1] here.    *)
(***************************************************************************)
EXTENDS Integers, Sequences, FiniteSets, TLC

(* ---------------------------------------------------------------- bounds *)
\* number of mutating calls explored after construction
MaxOps == 2
\* number of mutating calls explored in the append-only specifications
MaxGrowOps == 4
\* number of mutating calls explored after a duplicate
MaxDupOps == 1
\* number of mutating calls explored on two values of any making
MaxOwnOps == 1
\* heap addresses the allocator can hand out
MaxAddr == 3
\* largest request the allocator can satisfy (bytes)
HeapLimit == 400
\* size_t is modelled modulo 2^SizeBits
SizeBits == 16

\* longest byte string of the exhaustive UTF-8 inputs
MaxUtf8Len == 3

\* longest view handed to zstr_sub
MaxSubLen == 3

\* longest view handed to zstr_view_to_int
MaxIntLen == 4
\* width of int in the model
IntBits == 8

\* longest source handed to zstr_split_init
MaxSplitLen == 4
\* segments a split sequence may yield before the exploration stops
MaxParts == 5

(* ----------------------------------------------------- program constants *)
Z_OK == 0
Z_ERR == 0 - 1
ZSTR_SSO_CAP == 23
Z_GROWTH_FACTOR(cap) == IF cap = 0 THEN 32 ELSE cap * 2

SizeMod == 2 ^ SizeBits
\* size_t arithmetic
SzAdd(a, b) == (a + b) % SizeMod
SzSub(a, b) == (((a - b) % SizeMod) + SizeMod) % SizeMod
SzMul(a, b) == (a * b) % SizeMod
\* (uint8_t) cast
U8(n) == n % 256

\* An indeterminate byte: fresh malloc memory, or the bytes of an overwritten
\* union member.  A read that decides something resolves it to one of Garbage.
Indet == 0 - 1
Garbage == {0, 32, 255}
Resolve(mem, g) == [k \in 1..Len(mem) |-> IF mem[k] = Indet THEN g ELSE mem[k]]

Addr == 1..MaxAddr
NULL == 0

Min(S) == CHOOSE x \in S : \A y \in S : x <= y
Fill(n, b) == [k \in 1..n |-> b]

(* --------------------------------------------------------------- memory *)
\* heap[a] = << >> : address a is not allocated
FreeAddrs(h) == {a \in Addr : h[a] = << >>}

\* outcomes of an allocator call
AllocModes == {"fail", "inplace", "move"}

\* Z_STR_MALLOC(n): NULL, or a fresh buffer of n indeterminate bytes
Malloc(h, n, am) ==
    IF am = "fail" \/ FreeAddrs(h) = {} \/ n > HeapLimit \/ n <= 0
    THEN [p |-> NULL, h |-> h]
    ELSE LET a == Min(FreeAddrs(h))
         IN  [p |-> a, h |-> [h EXCEPT ![a] = Fill(n, Indet)]]

\* the first n bytes of a buffer resized to n bytes
Resized(old, n) == [k \in 1..n |-> IF k <= Len(old) THEN old[k] ELSE Indet]

\* Z_STR_REALLOC(p, n): NULL (p untouched), p resized in place, or a moved copy
Realloc(h, p, n, am) ==
    IF am = "fail" \/ n > HeapLimit \/ n <= 0
    THEN [p |-> NULL, h |-> h]
    ELSE IF am = "inplace"
    THEN [p |-> p, h |-> [h EXCEPT ![p] = Resized(h[p], n)]]
    ELSE IF FreeAddrs(h) = {}
    THEN [p |-> NULL, h |-> h]
    ELSE LET a == Min(FreeAddrs(h))
         IN  [p |-> a, h |-> [h EXCEPT ![a] = Resized(h[p], n), ![p] = << >>]]

\* Z_STR_FREE(p)
Free(h, p) == [h EXCEPT ![p] = << >>]

\* memcpy(dst + doff, src + soff, n); bytes that would land past dst are dropped
MemCpy(dst, doff, src, soff, n) ==
    [k \in 1..Len(dst) |->
        IF k > doff /\ k <= doff + n /\ soff + (k - doff) <= Len(src)
        THEN src[soff + (k - doff)]
        ELSE dst[k]]

\* dst[off] = b
Poke(dst, off, b) == [k \in 1..Len(dst) |-> IF k = off + 1 THEN b ELSE dst[k]]

RECURSIVE StrLenFrom(_, _)
\* strlen(d + k) + k: index of the first 0x00 at or after k (Len(d) if none)
StrLenFrom(d, k) ==
    IF k >= Len(d) THEN Len(d)
    ELSE IF d[k + 1] = 0 THEN k ELSE StrLenFrom(d, k + 1)
StrLenOf(d) == StrLenFrom(d, 0)

(* ------------------------------------------------------------ the value *)
\* typedef struct zstr: the discriminator and the two union members.  The
\* member that is not in use is kept at a fixed value (it is never read).
zstr_init ==
    [is_long |-> FALSE,
     buf |-> Fill(ZSTR_SSO_CAP, 0), slen |-> 0,
     ptr |-> NULL, llen |-> 0, lcap |-> 0]

\* a long value
LongVal(p, len, cap) ==
    [is_long |-> TRUE,
     buf |-> Fill(ZSTR_SSO_CAP, 0), slen |-> 0,
     ptr |-> p, llen |-> len, lcap |-> cap]

\* an inline value
ShortVal(b, len) ==
    [is_long |-> FALSE, buf |-> b, slen |-> len,
     ptr |-> NULL, llen |-> 0, lcap |-> 0]

zstr_is_long(v) == v.is_long
\* zstr_data / zstr_cstr: the buffer the discriminator selects
zstr_data(v, h) == IF v.is_long THEN h[v.ptr] ELSE v.buf
zstr_len(v) == IF v.is_long THEN v.llen ELSE v.slen

\* writes the data buffer of v back
SetData(v, h, mem) ==
    IF v.is_long THEN [v |-> v, h |-> [h EXCEPT ![v.ptr] = mem]]
    ELSE [v |-> [v EXCEPT !.buf = mem], h |-> h]

SetLen(v, n) ==
    IF v.is_long THEN [v EXCEPT !.llen = n] ELSE [v EXCEPT !.slen = U8(n)]

\* the first length() bytes of the data buffer (zstr_as_view)
Prefix(mem, n) == [k \in 1..(IF n <= Len(mem) THEN n ELSE Len(mem)) |-> mem[k]]
zstr_as_view(v, h) == Prefix(zstr_data(v, h), zstr_len(v))

\* result of a call: the value, the heap, the status (Z_OK for a call that
\* returns none), whether an allocator call inside it returned NULL, the
\* pointer or byte it returns, and whether the call was stopped by an
\* out-of-bounds access
Res(v, h, ret, failed) ==
    [v |-> v, h |-> h, ret |-> ret, failed |-> failed, out |-> 0, abort |-> FALSE]
ResOut(v, h, failed, out) ==
    [v |-> v, h |-> h, ret |-> Z_OK, failed |-> failed, out |-> out, abort |-> FALSE]
ResAbort(v, h) ==
    [v |-> v, h |-> h, ret |-> Z_OK, failed |-> FALSE, out |-> 0, abort |-> TRUE]

\* what a build does with an out-of-bounds access: the access lands in the
\* neighbouring bytes, or the run is stopped (a sanitizer, a fortified libc)
UbModes == {"overrun", "abort"}

\* variant of zstr_reserve: the capacity is stored before the new pointer is tested
zstr_reserve_cap_first(v, h, new_cap, am) ==
    IF new_cap < ZSTR_SSO_CAP THEN Res(v, h, Z_OK, FALSE)
    ELSE IF v.is_long /\ new_cap <= v.lcap THEN Res(v, h, Z_OK, FALSE)
    ELSE IF v.is_long
    THEN LET r == Realloc(h, v.ptr, SzAdd(new_cap, 1), am)
         IN  IF r.p = NULL THEN Res([v EXCEPT !.lcap = new_cap], h, Z_ERR, TRUE)
             ELSE Res([v EXCEPT !.ptr = r.p, !.lcap = new_cap], r.h, Z_OK, FALSE)
    ELSE LET m == Malloc(h, SzAdd(new_cap, 1), am)
         IN  IF m.p = NULL THEN Res(v, h, Z_ERR, TRUE)
             ELSE LET copied == MemCpy(m.h[m.p], 0, v.buf, 0, v.slen)
                      mem == Poke(copied, v.slen, 0)
                  IN  Res(LongVal(m.p, v.slen, new_cap),
                          [m.h EXCEPT ![m.p] = mem], Z_OK, FALSE)

\* variant of zstr_reserve: the promotion does not copy the inline bytes
zstr_reserve_no_copy(v, h, new_cap, am) ==
    IF new_cap < ZSTR_SSO_CAP THEN Res(v, h, Z_OK, FALSE)
    ELSE IF v.is_long /\ new_cap <= v.lcap THEN Res(v, h, Z_OK, FALSE)
    ELSE IF v.is_long
    THEN LET r == Realloc(h, v.ptr, SzAdd(new_cap, 1), am)
         IN  IF r.p = NULL THEN Res(v, h, Z_ERR, TRUE)
             ELSE Res([v EXCEPT !.ptr = r.p, !.lcap = new_cap], r.h, Z_OK, FALSE)
    ELSE LET m == Malloc(h, SzAdd(new_cap, 1), am)
         IN  IF m.p = NULL THEN Res(v, h, Z_ERR, TRUE)
             ELSE Res(LongVal(m.p, v.slen, new_cap),
                      [m.h EXCEPT ![m.p] = Poke(m.h[m.p], v.slen, 0)], Z_OK, FALSE)

\* variant of zstr_reserve: no early return for a request below ZSTR_SSO_CAP
zstr_reserve_always(v, h, new_cap, am) ==
    IF v.is_long /\ new_cap <= v.lcap THEN Res(v, h, Z_OK, FALSE)
    ELSE IF v.is_long
    THEN LET r == Realloc(h, v.ptr, SzAdd(new_cap, 1), am)
         IN  IF r.p = NULL THEN Res(v, h, Z_ERR, TRUE)
             ELSE Res([v EXCEPT !.ptr = r.p, !.lcap = new_cap], r.h, Z_OK, FALSE)
    ELSE LET m == Malloc(h, SzAdd(new_cap, 1), am)
         IN  IF m.p = NULL THEN Res(v, h, Z_ERR, TRUE)
             ELSE LET copied == MemCpy(m.h[m.p], 0, v.buf, 0, v.slen)
                      mem == Poke(copied, v.slen, 0)
                  IN  Res(LongVal(m.p, v.slen, new_cap),
                          [m.h EXCEPT ![m.p] = mem], Z_OK, FALSE)

(* ------------------------------------------------------ zstr_reserve *)
zstr_reserve(v, h, new_cap, am) ==
    IF new_cap < ZSTR_SSO_CAP THEN Res(v, h, Z_OK, FALSE)
    ELSE IF v.is_long /\ new_cap <= v.lcap THEN Res(v, h, Z_OK, FALSE)
    ELSE IF v.is_long
    THEN LET r == Realloc(h, v.ptr, SzAdd(new_cap, 1), am)
         IN  IF r.p = NULL THEN Res(v, h, Z_ERR, TRUE)
             ELSE Res([v EXCEPT !.ptr = r.p, !.lcap = new_cap], r.h, Z_OK, FALSE)
    ELSE LET m == Malloc(h, SzAdd(new_cap, 1), am)
         IN  IF m.p = NULL THEN Res(v, h, Z_ERR, TRUE)
             ELSE LET copied == MemCpy(m.h[m.p], 0, v.buf, 0, v.slen)
                      mem == Poke(copied, v.slen, 0)
                  IN  Res(LongVal(m.p, v.slen, new_cap),
                          [m.h EXCEPT ![m.p] = mem], Z_OK, FALSE)

(* ------------------------------------------------------ zstr_from_len *)
\* variant of zstr_from_len: the length is taken up to the first 0x00 (strlen)
zstr_from_len_strlen(b, h, am) ==
    LET len == StrLenOf(b)
    IN  IF len >= ZSTR_SSO_CAP
        THEN LET r == zstr_reserve(zstr_init, h, len, am)
             IN  IF r.ret # Z_OK THEN Res(r.v, r.h, Z_OK, r.failed)
                 ELSE LET mem == Poke(MemCpy(r.h[r.v.ptr], 0, b, 0, len), len, 0)
                      IN  Res([r.v EXCEPT !.llen = len],
                              [r.h EXCEPT ![r.v.ptr] = mem], Z_OK, FALSE)
        ELSE LET mem == Poke(MemCpy(zstr_init.buf, 0, b, 0, len), len, 0)
             IN  Res(ShortVal(mem, U8(len)), h, Z_OK, FALSE)

zstr_from_len(b, h, am) ==
    LET len == Len(b)
    IN  IF len >= ZSTR_SSO_CAP
        THEN LET r == zstr_reserve(zstr_init, h, len, am)
             IN  IF r.ret # Z_OK THEN Res(r.v, r.h, Z_OK, r.failed)
                 ELSE LET mem == Poke(MemCpy(r.h[r.v.ptr], 0, b, 0, len), len, 0)
                      IN  Res([r.v EXCEPT !.llen = len],
                              [r.h EXCEPT ![r.v.ptr] = mem], Z_OK, FALSE)
        ELSE LET mem == Poke(MemCpy(zstr_init.buf, 0, b, 0, len), len, 0)
             IN  Res(ShortVal(mem, U8(len)), h, Z_OK, FALSE)

(* ------------------------------------------------------ zstr_push_char *)
\* variant of zstr_push_char: grows when len + 1 > capacity instead of >=
zstr_push_char_gt(v, h, c, am) ==
    LET len == zstr_len(v)
        cap == IF v.is_long THEN v.lcap ELSE ZSTR_SSO_CAP
        r == IF SzAdd(len, 1) > cap
             THEN zstr_reserve(v, h, Z_GROWTH_FACTOR(cap) % SizeMod, am)
             ELSE Res(v, h, Z_OK, FALSE)
    IN  IF r.ret # Z_OK THEN Res(r.v, r.h, Z_ERR, r.failed)
        ELSE LET mem == Poke(Poke(zstr_data(r.v, r.h), len, c), len + 1, 0)
                 w == SetData(r.v, r.h, mem)
             IN  Res(SetLen(w.v, zstr_len(w.v) + 1), w.h, Z_OK, FALSE)

zstr_push_char(v, h, c, am) ==
    LET len == zstr_len(v)
        cap == IF v.is_long THEN v.lcap ELSE ZSTR_SSO_CAP
        r == IF SzAdd(len, 1) >= cap
             THEN zstr_reserve(v, h, Z_GROWTH_FACTOR(cap) % SizeMod, am)
             ELSE Res(v, h, Z_OK, FALSE)
    IN  IF r.ret # Z_OK THEN Res(r.v, r.h, Z_ERR, r.failed)
        ELSE LET mem == Poke(Poke(zstr_data(r.v, r.h), len, c), len + 1, 0)
                 w == SetData(r.v, r.h, mem)
             IN  Res(SetLen(w.v, zstr_len(w.v) + 1), w.h, Z_OK, FALSE)

(* ------------------------------------------------------ zstr_free *)
\* variant of zstr_free: the value is not reset after the buffer is freed
zstr_free_no_reset(v, h) ==
    Res(v, IF v.is_long THEN Free(h, v.ptr) ELSE h, Z_OK, FALSE)

zstr_free(v, h) ==
    Res(zstr_init, IF v.is_long THEN Free(h, v.ptr) ELSE h, Z_OK, FALSE)

(* ------------------------------------------------------ zstr_clear *)
\* variant of zstr_clear: releases the heap buffer and resets the value
zstr_clear_releases(v, h) ==
    Res(zstr_init, IF v.is_long THEN Free(h, v.ptr) ELSE h, Z_OK, FALSE)

zstr_clear(v, h) ==
    IF v.is_long
    THEN Res([v EXCEPT !.llen = 0], [h EXCEPT ![v.ptr] = Poke(h[v.ptr], 0, 0)],
             Z_OK, FALSE)
    ELSE Res([v EXCEPT !.slen = 0, !.buf = Poke(v.buf, 0, 0)], h, Z_OK, FALSE)

(* ------------------------------------------------------ zstr_with_capacity *)
zstr_with_capacity(cap, h, am) ==
    IF cap > ZSTR_SSO_CAP
    THEN LET r == zstr_reserve(zstr_init, h, cap, am)
         IN  Res(r.v, r.h, Z_OK, r.failed)
    ELSE Res(zstr_init, h, Z_OK, FALSE)

(* ------------------------------------------------------ zstr_shrink_to_fit *)
\* variant of zstr_shrink_to_fit: the inline length is read after the union was
\* overwritten, and comes out as 0
zstr_shrink_to_fit_late_len(v, h, am, ub) ==
    IF ~v.is_long THEN Res(v, h, Z_OK, FALSE)
    ELSE IF v.llen <= ZSTR_SSO_CAP
    THEN IF v.llen >= ZSTR_SSO_CAP /\ ub = "abort" THEN ResAbort(v, h)
         ELSE LET temp == Poke(MemCpy(Fill(ZSTR_SSO_CAP, Indet), 0,
                                      h[v.ptr], 0, v.llen), v.llen, 0)
                  b == MemCpy(Fill(ZSTR_SSO_CAP, Indet), 0, temp, 0, U8(v.llen) + 1)
              IN  Res(ShortVal(b, 0), Free(h, v.ptr), Z_OK, FALSE)
    ELSE IF v.llen < v.lcap
    THEN LET r == Realloc(h, v.ptr, SzAdd(v.llen, 1), am)
         IN  IF r.p # NULL
             THEN Res([v EXCEPT !.ptr = r.p, !.lcap = v.llen], r.h, Z_OK, FALSE)
             ELSE Res(v, h, Z_OK, TRUE)
    ELSE Res(v, h, Z_OK, FALSE)

\* char temp[ZSTR_SSO_CAP]: temp[len] = 0 and the copy of len + 1 bytes into
\* s.buf are out of bounds when len = ZSTR_SSO_CAP; the byte past s.buf is
\* s.len, which the next statement overwrites.
zstr_shrink_to_fit(v, h, am, ub) ==
    IF ~v.is_long THEN Res(v, h, Z_OK, FALSE)
    ELSE IF v.llen <= ZSTR_SSO_CAP
    THEN IF v.llen >= ZSTR_SSO_CAP /\ ub = "abort" THEN ResAbort(v, h)
         ELSE LET temp == Poke(MemCpy(Fill(ZSTR_SSO_CAP, Indet), 0,
                                      h[v.ptr], 0, v.llen), v.llen, 0)
                  old_len == U8(v.llen)
                  b == MemCpy(Fill(ZSTR_SSO_CAP, Indet), 0, temp, 0, old_len + 1)
              IN  Res(ShortVal(b, old_len), Free(h, v.ptr), Z_OK, FALSE)
    ELSE IF v.llen < v.lcap
    THEN LET r == Realloc(h, v.ptr, SzAdd(v.llen, 1), am)
         IN  IF r.p # NULL
             THEN Res([v EXCEPT !.ptr = r.p, !.lcap = v.llen], r.h, Z_OK, FALSE)
             ELSE Res(v, h, Z_OK, TRUE)
    ELSE Res(v, h, Z_OK, FALSE)

(* ------------------------------------------------------ zstr_dup *)
\* variant of zstr_dup: a struct copy that shares the heap buffer
zstr_dup_shallow(v, h, am) == Res(v, h, Z_OK, FALSE)

zstr_dup(v, h, am) == zstr_from_len(zstr_as_view(v, h), h, am)

(* ------------------------------------------------------ zstr_own *)
\* s.buf[len] = 0 is out of bounds when len = ZSTR_SSO_CAP (it lands on s.len,
\* which the next statement overwrites)
zstr_own(p, len, cap, h, ub) ==
    IF cap <= ZSTR_SSO_CAP
    THEN IF len >= ZSTR_SSO_CAP /\ ub = "abort" THEN ResAbort(zstr_init, h)
         ELSE LET b == Poke(MemCpy(zstr_init.buf, 0, h[p], 0, len), len, 0)
              IN  Res(ShortVal(b, U8(len)), Free(h, p), Z_OK, FALSE)
    ELSE Res(LongVal(p, len, cap), h, Z_OK, FALSE)

(* ------------------------------------------------------ zstr_take *)
\* variant of zstr_take: the value is not reset after its pointer was returned
zstr_take_keep(v, h, am) ==
    IF v.is_long THEN ResOut(v, h, FALSE, v.ptr)
    ELSE LET m == Malloc(h, v.slen + 1, am)
         IN  IF m.p = NULL THEN ResOut(v, h, TRUE, NULL)
             ELSE LET mem == Poke(MemCpy(m.h[m.p], 0, v.buf, 0, v.slen), v.slen, 0)
                  IN  ResOut(v, [m.h EXCEPT ![m.p] = mem], FALSE, m.p)

zstr_take(v, h, am) ==
    IF v.is_long THEN ResOut(zstr_init, h, FALSE, v.ptr)
    ELSE LET m == Malloc(h, v.slen + 1, am)
         IN  IF m.p = NULL THEN ResOut(zstr_init, h, TRUE, NULL)
             ELSE LET mem == Poke(MemCpy(m.h[m.p], 0, v.buf, 0, v.slen), v.slen, 0)
                  IN  ResOut(zstr_init, [m.h EXCEPT ![m.p] = mem], FALSE, m.p)

(* ------------------------------------------------------ zstr_pop_char *)
zstr_pop_char(v, h) ==
    LET len == zstr_len(v)
        mem == zstr_data(v, h)
    IN  IF len = 0 THEN ResOut(v, h, FALSE, 0)
        ELSE LET w == SetData(v, h, Poke(mem, len - 1, 0))
             IN  ResOut(SetLen(w.v, len - 1), w.h, FALSE, mem[len])

(* ------------------------------------------------------ zstr_cat_len *)
RECURSIVE GrowLoop(_, _)
\* while (new_cap <= req_cap) new_cap = Z_GROWTH_FACTOR(new_cap);
GrowLoop(new_cap, req_cap) ==
    IF new_cap <= req_cap
    THEN GrowLoop(Z_GROWTH_FACTOR(new_cap) % SizeMod, req_cap)
    ELSE new_cap

zstr_cat_len(v, h, src, am) ==
    LET cur_len == zstr_len(v)
        src_len == Len(src)
        req_cap == SzAdd(cur_len, src_len)
        cap == IF v.is_long THEN v.lcap ELSE ZSTR_SSO_CAP
        r == IF req_cap >= cap
             THEN zstr_reserve(v, h,
                      GrowLoop(IF cap = 0 THEN ZSTR_SSO_CAP ELSE cap, req_cap), am)
             ELSE Res(v, h, Z_OK, FALSE)
    IN  IF r.ret # Z_OK THEN Res(r.v, r.h, Z_ERR, r.failed)
        ELSE LET dest == zstr_data(r.v, r.h)
                 mem == Poke(MemCpy(dest, cur_len, src, 0, src_len),
                             cur_len + src_len, 0)
                 w == SetData(r.v, r.h, mem)
             IN  Res(IF w.v.is_long
                     THEN [w.v EXCEPT !.llen = SzAdd(w.v.llen, src_len)]
                     ELSE [w.v EXCEPT !.slen = U8(w.v.slen + U8(src_len))],
                     w.h, Z_OK, FALSE)

(* ------------------------------------------------------ zstr_fmt *)
\* variant of zstr_fmt: reserves only when req_cap > capacity
zstr_fmt_gt(v, h, f, am) ==
    IF f.len < 0 THEN Res(v, h, Z_ERR, FALSE)
    ELSE LET cur_len == zstr_len(v)
             req_cap == SzAdd(cur_len, f.len)
             cap == IF v.is_long THEN v.lcap ELSE ZSTR_SSO_CAP
             r == IF req_cap > cap THEN zstr_reserve(v, h, req_cap, am)
                  ELSE Res(v, h, Z_OK, FALSE)
         IN  IF r.ret # Z_OK THEN Res(r.v, r.h, Z_ERR, r.failed)
             ELSE LET buf == zstr_data(r.v, r.h)
                      mem == Poke(MemCpy(buf, cur_len, f.text, 0, f.len),
                                  cur_len + f.len, 0)
                      w == SetData(r.v, r.h, mem)
                  IN  Res(IF w.v.is_long
                          THEN [w.v EXCEPT !.llen = SzAdd(w.v.llen, f.len)]
                          ELSE [w.v EXCEPT !.slen = U8(w.v.slen + U8(f.len))],
                          w.h, Z_OK, FALSE)

\* f: what vsnprintf makes of the format and its arguments, len the count it
\* returns (negative on an encoding error) and text the len bytes it produces;
\* vsnprintf(buf + cur_len, len + 1, ...) stores them and a 0x00 after them
zstr_fmt(v, h, f, am) ==
    IF f.len < 0 THEN Res(v, h, Z_ERR, FALSE)
    ELSE LET cur_len == zstr_len(v)
             req_cap == SzAdd(cur_len, f.len)
             cap == IF v.is_long THEN v.lcap ELSE ZSTR_SSO_CAP
             r == IF req_cap >= cap THEN zstr_reserve(v, h, req_cap, am)
                  ELSE Res(v, h, Z_OK, FALSE)
         IN  IF r.ret # Z_OK THEN Res(r.v, r.h, Z_ERR, r.failed)
             ELSE LET buf == zstr_data(r.v, r.h)
                      mem == Poke(MemCpy(buf, cur_len, f.text, 0, f.len),
                                  cur_len + f.len, 0)
                      w == SetData(r.v, r.h, mem)
                  IN  Res(IF w.v.is_long
                          THEN [w.v EXCEPT !.llen = SzAdd(w.v.llen, f.len)]
                          ELSE [w.v EXCEPT !.slen = U8(w.v.slen + U8(f.len))],
                          w.h, Z_OK, FALSE)

(* ------------------------------------------------------ zstr_trim *)
\* isspace() in the "C" locale
isspace(c) == c \in {9, 10, 11, 12, 13, 32}

RECURSIVE TrimEnd(_, _)
\* while (end >= start && isspace(*end)) end--;   (0-based index, -1 = before start)
TrimEnd(d, end) ==
    IF end >= 0 /\ isspace(d[end + 1]) THEN TrimEnd(d, end - 1) ELSE end

RECURSIVE TrimStart(_, _, _)
\* while (new_start <= end && isspace(*new_start)) new_start++;
TrimStart(d, new_start, end) ==
    IF new_start <= end /\ isspace(d[new_start + 1])
    THEN TrimStart(d, new_start + 1, end) ELSE new_start

\* g: the value the indeterminate bytes that isspace() reads turn out to have
zstr_trim(v, h, g) ==
    IF zstr_len(v) = 0 THEN Res(v, h, Z_OK, FALSE)
    ELSE LET mem == zstr_data(v, h)
             d == Resolve(mem, g)
             len == zstr_len(v)
             end == TrimEnd(d, len - 1)
             \* *end = '\0' for every trailing whitespace byte
             mem1 == [k \in 1..Len(mem) |->
                        IF k > end + 1 /\ k <= len THEN 0 ELSE mem[k]]
             new_start == TrimStart(d, 0, end)
             final_len == IF new_start <= end THEN end - new_start + 1 ELSE 0
             mem2 == IF new_start > 0
                     THEN Poke(MemCpy(mem1, 0, mem1, new_start, final_len),
                               final_len, 0)
                     ELSE mem1
             w == SetData(v, h, mem2)
         IN  Res(SetLen(w.v, final_len), w.h, Z_OK, FALSE)

(* ------------------------------------------------------ zstr_replace *)
MatchAt(d, k, t) == \A j \in 1..Len(t) : d[k + j] = t[j]

RECURSIVE StrStr(_, _, _, _)
\* strstr(d + k, t) inside the C string that ends at index z: the index of the
\* first occurrence, or -1
StrStr(d, k, t, z) ==
    IF k + Len(t) > z THEN 0 - 1
    ELSE IF MatchAt(d, k, t) THEN k
    ELSE StrStr(d, k + 1, t, z)

RECURSIVE CountOcc(_, _, _, _)
\* while ((scan = strstr(scan, target)) != NULL) { count++; scan += target_len; }
CountOcc(d, k, t, z) ==
    LET p == StrStr(d, k, t, z)
    IN  IF p < 0 THEN 0 ELSE 1 + CountOcc(d, p + Len(t), t, z)

Slice(m, from, to) == [k \in 1..(to - from) |-> m[from + k]]

RECURSIVE Rebuild(_, _, _, _, _, _)
\* the bytes the copy loop and the final strcpy write to dest, terminator included
Rebuild(m, d, k, t, repl, z) ==
    LET p == StrStr(d, k, t, z)
    IN  IF p < 0 THEN Slice(m, k, z) \o <<0>>
        ELSE Slice(m, k, p) \o repl \o Rebuild(m, d, p + Len(t), t, repl, z)

\* the bytes that follow the data buffer in memory: s.len after the inline
\* buffer, then whatever lies behind the object (stray, ending in 0x00)
Visible(v, h, stray) ==
    IF v.is_long THEN h[v.ptr] \o stray ELSE v.buf \o <<v.slen>> \o stray

\* zstr_replace after its argument check: the scan, the count, the rebuild
ReplaceScan(v, h, target, replacement, am, g, stray, ub) ==
    LET m == Visible(v, h, stray)
        d == Resolve(m, g)
        z == StrLenFrom(d, 0)
        inside == z < Len(zstr_data(v, h))
    IN  IF ~inside /\ ub = "abort" THEN ResAbort(v, h)
        ELSE IF StrStr(d, 0, target, z) < 0 THEN Res(v, h, Z_OK, FALSE)
        ELSE
        LET target_len == Len(target)
            repl_len == Len(replacement)
            count == CountOcc(d, 0, target, z)
            old_len == zstr_len(v)
            new_len == SzAdd(old_len, SzMul(count, SzSub(repl_len, target_len)))
            r == zstr_reserve(zstr_init, h, new_len, am)
        IN  IF r.ret # Z_OK THEN Res(v, h, Z_ERR, r.failed)
            ELSE
            LET written == Rebuild(m, d, 0, target, replacement, z)
                dest == zstr_data(r.v, r.h)
                w == SetData(r.v, r.h, MemCpy(dest, 0, written, 0, Len(written)))
                res == SetLen(w.v, new_len)
                freed == zstr_free(v, w.h)
            IN  IF Len(written) > Len(dest) /\ ub = "abort" THEN ResAbort(v, h)
                ELSE Res(res, freed.h, Z_OK, FALSE)

\* variant of zstr_replace: an empty target is taken as "no occurrence"
zstr_replace_empty_ok(v, h, target, replacement, am, g, stray, ub) ==
    IF target = << >> THEN Res(v, h, Z_OK, FALSE)
    ELSE ReplaceScan(v, h, target, replacement, am, g, stray, ub)

\* if (!target || !*target) return Z_ERR;
zstr_replace(v, h, target, replacement, am, g, stray, ub) ==
    IF target = << >> THEN Res(v, h, Z_ERR, FALSE)
    ELSE ReplaceScan(v, h, target, replacement, am, g, stray, ub)

(* ------------------------------------------------------ views *)
\* zstr_view: data points at offset off of the memory mem, len bytes long
ViewOf(mem, off, len) == [mem |-> mem, off |-> off, len |-> len]
\* the bytes a view denotes (those of them that lie in its memory)
ViewBytes(w) ==
    [k \in 1..(IF w.off + w.len <= Len(w.mem) THEN w.len
               ELSE IF w.off <= Len(w.mem) THEN Len(w.mem) - w.off ELSE 0)
        |-> w.mem[w.off + k]]

RECURSIVE LStripFrom(_, _, _)
\* while (start < end && isspace(*start)) start++;
LStripFrom(mem, start, end) ==
    IF start < end /\ isspace(mem[start + 1])
    THEN LStripFrom(mem, start + 1, end) ELSE start

RECURSIVE RStripTo(_, _, _)
\* while (end > start && isspace(*(end - 1))) end--;
RStripTo(mem, start, end) ==
    IF end > start /\ isspace(mem[end]) THEN RStripTo(mem, start, end - 1) ELSE end

zstr_view_lstrip(w) ==
    LET start == LStripFrom(w.mem, w.off, w.off + w.len)
    IN  ViewOf(w.mem, start, (w.off + w.len) - start)

zstr_view_rstrip(w) ==
    LET end == RStripTo(w.mem, w.off, w.off + w.len)
    IN  ViewOf(w.mem, w.off, end - w.off)

zstr_view_trim(w) == zstr_view_lstrip(zstr_view_rstrip(w))

\* the string literal "" that zstr_sub returns a view of
EmptyLiteral == ViewOf(<<0>>, 0, 0)

\* start + len is computed in size_t
zstr_sub(w, start, len) ==
    IF start >= w.len THEN EmptyLiteral
    ELSE LET n == IF SzAdd(start, len) > w.len THEN w.len - start ELSE len
         IN  ViewOf(w.mem, w.off + start, n)

(* ------------------------------------------------------ zstr_view_to_int *)
INT_MAX == 2 ^ (IntBits - 1) - 1
INT_MIN == 0 - 2 ^ (IntBits - 1)
\* the int a wrapping build computes
WrapInt(x) == ((x - INT_MIN) % (2 ^ IntBits)) + INT_MIN
\* what a build does with a signed overflow: it wraps, or it traps (-ftrapv,
\* a sanitizer)
IntUbModes == {"wrap", "trap"}

Parsed(ok, val, abort) == [ok |-> ok, val |-> val, written |-> ok, abort |-> abort]

RECURSIVE DigitLoop(_, _, _, _, _)
\* for (; i < v.len; i++): the first non-digit returns false; the bytes of
\* the view are w.mem[w.off + 1 .. w.off + w.len]
DigitLoop(w, i, sign, result, ub) ==
    IF i >= w.len
    THEN LET prod == result * sign
         IN  IF prod > INT_MAX /\ ub = "trap" THEN Parsed(FALSE, 0, TRUE)
             ELSE Parsed(TRUE, WrapInt(prod), FALSE)
    ELSE LET c == w.mem[w.off + i + 1]
             next == result * 10 + (c - 48)
         IN  IF c < 48 \/ c > 57 THEN Parsed(FALSE, 0, FALSE)
             ELSE IF (next > INT_MAX \/ next < INT_MIN) /\ ub = "trap"
             THEN Parsed(FALSE, 0, TRUE)
             ELSE DigitLoop(w, i + 1, sign, WrapInt(next), ub)

zstr_view_to_int(w, ub) ==
    IF w.len = 0 THEN Parsed(FALSE, 0, FALSE)
    ELSE LET c0 == w.mem[w.off + 1]
             sign == IF c0 = 45 THEN 0 - 1 ELSE 1
             i == IF c0 = 45 \/ c0 = 43 THEN 1 ELSE 0
         IN  IF i = w.len THEN Parsed(FALSE, 0, FALSE)
             ELSE DigitLoop(w, i, sign, 0, ub)

(* ------------------------------------------------------ split *)
\* delim: the bytes of the C string before its terminator (zstr_view_from)
zstr_split_init(src, delim) ==
    [source |-> src, delim |-> delim, current_pos |-> 0, finished |-> FALSE]

RECURSIVE ScanDelim(_, _, _, _, _, _)
\* for (i = 0; i <= remaining - delim.len; i++) if (memcmp(start + i, ...) == 0):
\* the first i that matches, or none when i passes the limit. limit is
\* remaining - delim.len in size_t. m: the memory of the source and the bytes
\* behind it, readable: how far a read may go before the run is stopped.
ScanDelim(m, start, i, limit, d, readable) ==
    IF i > limit THEN [found |-> FALSE, at |-> 0, abort |-> FALSE]
    ELSE IF d # << >> /\ start + i + Len(d) > readable
    THEN [found |-> FALSE, at |-> 0, abort |-> TRUE]
    ELSE IF \A j \in 1..Len(d) : m[start + i + j] = d[j]
    THEN [found |-> TRUE, at |-> i, abort |-> FALSE]
    ELSE ScanDelim(m, start, i + 1, limit, d, readable)

Yield(ret, itr, w, abort) == [ret |-> ret, it |-> itr, w |-> w, abort |-> abort]

\* the body of zstr_split_next after the test of finished
SplitScan(itr, w, stray, ub) ==
    LET m == itr.source.mem \o stray
        start == itr.source.off + itr.current_pos
        remaining == SzSub(itr.source.len, itr.current_pos)
        readable == IF ub = "abort" THEN Len(itr.source.mem) ELSE Len(m)
        sc == ScanDelim(m, start, 0, SzSub(remaining, Len(itr.delim)),
                        itr.delim, readable)
        found_at == IF sc.found THEN sc.at ELSE remaining
    IN  IF sc.abort THEN Yield(FALSE, itr, w, TRUE)
        ELSE IF found_at = remaining
        THEN Yield(TRUE, [itr EXCEPT !.finished = TRUE],
                   ViewOf(itr.source.mem, start, remaining), FALSE)
        ELSE Yield(TRUE,
                   [itr EXCEPT !.current_pos =
                        SzAdd(itr.current_pos, SzAdd(found_at, Len(itr.delim)))],
                   ViewOf(itr.source.mem, start, found_at), FALSE)

\* variant of zstr_split_next: no test of finished
zstr_split_next_rescan(itr, w, stray, ub) == SplitScan(itr, w, stray, ub)

\* itr: *it, w: *out_part before the call
zstr_split_next(itr, w, stray, ub) ==
    IF itr.finished THEN Yield(FALSE, itr, w, FALSE)
    ELSE SplitScan(itr, w, stray, ub)

(* ------------------------------------------------------ UTF-8 *)
ZSTR_UTF8_INVALID == 65533

\* (next & 0xC0) == 0x80
IsCont(b) == b \div 64 = 2

RECURSIVE RuneTail(_, _, _, _, _)
\* for (i = 1; i < len; i++): fold the continuation bytes into rune, or stop
\* at the first byte that is not one; hi: the highest offset read
RuneTail(m, p, i, len, rune) ==
    IF i >= len THEN [rune |-> rune, adv |-> len, hi |-> p + len - 1]
    ELSE LET next == m[p + i + 1]
         IN  IF ~IsCont(next) THEN [rune |-> ZSTR_UTF8_INVALID, adv |-> 1, hi |-> p + i]
             ELSE RuneTail(m, p, i + 1, len, rune * 64 + (next % 64))

\* variant of zstr_next_rune: an invalid continuation byte is skipped together
\* with the bytes before it
zstr_next_rune_skip(m, p) ==
    LET c == m[p + 1]
        len == IF c \div 32 = 6 THEN 2 ELSE IF c \div 16 = 14 THEN 3 ELSE 4
    IN  IF c = 0 THEN [rune |-> 0, adv |-> 0, hi |-> p]
        ELSE IF c < 128 THEN [rune |-> c, adv |-> 1, hi |-> p]
        ELSE IF c \div 32 # 6 /\ c \div 16 # 14 /\ c \div 8 # 30
        THEN [rune |-> ZSTR_UTF8_INVALID, adv |-> 1, hi |-> p]
        ELSE LET r == RuneTail(m, p, 1, len,
                               c % (IF len = 2 THEN 32 ELSE IF len = 3 THEN 16 ELSE 8))
             IN  IF r.rune = ZSTR_UTF8_INVALID THEN [r EXCEPT !.adv = 2] ELSE r

\* m: the memory *p points into, p: the offset of *p; the rune returned, the
\* number of bytes *p is advanced by, and the highest offset read
zstr_next_rune(m, p) ==
    LET c == m[p + 1]
    IN  IF c = 0 THEN [rune |-> 0, adv |-> 0, hi |-> p]
        ELSE IF c < 128 THEN [rune |-> c, adv |-> 1, hi |-> p]
        ELSE IF c \div 32 = 6 THEN RuneTail(m, p, 1, 2, c % 32)
        ELSE IF c \div 16 = 14 THEN RuneTail(m, p, 1, 3, c % 16)
        ELSE IF c \div 8 = 30 THEN RuneTail(m, p, 1, 4, c % 8)
        ELSE [rune |-> ZSTR_UTF8_INVALID, adv |-> 1, hi |-> p]

\* what zstr_is_valid_utf8 returns, and the highest offset it read
Verdict(b, hi) == [ret |-> b, abort |-> FALSE, hi |-> hi]
Stopped(hi) == [ret |-> FALSE, abort |-> TRUE, hi |-> hi]

RECURSIVE ValidFrom(_, _, _, _)
\* the while loop of zstr_is_valid_utf8 from offset p on. m: the data buffer
\* and the bytes behind it, size: the bytes of m that belong to the object.
\* The 3-byte branch reads its third byte before it looks at the second, so
\* after a lead byte that ends the string it reads the byte behind the
\* terminator.
ValidFrom(m, p, size, ub) ==
    LET c == m[p + 1]
    IN  IF c = 0 THEN Verdict(TRUE, p)
        ELSE IF c < 128 THEN ValidFrom(m, p + 1, size, ub)
        ELSE IF c \div 32 = 6
        THEN IF c < 194 THEN Verdict(FALSE, p)
             ELSE IF ~IsCont(m[p + 2]) THEN Verdict(FALSE, p + 1)
             ELSE ValidFrom(m, p + 2, size, ub)
        ELSE IF c \div 16 = 14
        THEN LET b1 == c
                 b2 == m[p + 2]
             IN  IF p + 2 >= size /\ ub = "abort" THEN Stopped(p + 2)
                 ELSE IF ~IsCont(m[p + 3]) THEN Verdict(FALSE, p + 2)
                 ELSE IF b1 = 224 /\ b2 < 160 THEN Verdict(FALSE, p + 2)
                 ELSE IF b1 = 237 /\ b2 >= 160 THEN Verdict(FALSE, p + 2)
                 ELSE IF ~IsCont(b2) THEN Verdict(FALSE, p + 2)
                 ELSE ValidFrom(m, p + 3, size, ub)
        ELSE IF c \div 8 = 30
        THEN LET b1 == c
                 b2 == m[p + 2]
             IN  IF b1 > 244 THEN Verdict(FALSE, p)
                 ELSE IF b1 = 240 /\ b2 < 144 THEN Verdict(FALSE, p + 1)
                 ELSE IF b1 = 244 /\ b2 >= 144 THEN Verdict(FALSE, p + 1)
                 ELSE IF ~IsCont(b2) THEN Verdict(FALSE, p + 1)
                 ELSE IF ~IsCont(m[p + 3]) THEN Verdict(FALSE, p + 2)
                 ELSE IF ~IsCont(m[p + 4]) THEN Verdict(FALSE, p + 3)
                 ELSE ValidFrom(m, p + 4, size, ub)
        ELSE Verdict(FALSE, p)

\* the bytes of the object that holds the data buffer: the heap block, or the
\* inline buffer and the length byte behind it
ObjectSize(v, h) == IF v.is_long THEN Len(h[v.ptr]) ELSE ZSTR_SSO_CAP + 1

\* variant of zstr_is_valid_utf8: no test of the second byte after 0xED
zstr_is_valid_utf8_surrogates(v, h, stray, ub) ==
    LET m == Visible(v, h, stray)
        w == [k \in 1..Len(m) |-> IF m[k] = 237 THEN 238 ELSE m[k]]
    IN  ValidFrom(w, 0, ObjectSize(v, h), ub)

zstr_is_valid_utf8(v, h, stray, ub) ==
    ValidFrom(Visible(v, h, stray), 0, ObjectSize(v, h), ub)

RECURSIVE CountFrom(_, _, _, _)
\* while (*ptr) { zstr_next_rune(&ptr); count++; } with ptr at offset ptr of m
CountFrom(m, ptr, count, hi) ==
    IF m[ptr + 1] = 0 THEN [count |-> count, hi |-> IF ptr > hi THEN ptr ELSE hi]
    ELSE LET r == zstr_next_rune(m, ptr)
         IN  CountFrom(m, ptr + r.adv, (count + 1) % SizeMod,
                       IF r.hi > hi THEN r.hi ELSE hi)

\* variant of zstr_count_runes: counts the bytes up to the terminator
zstr_count_runes_bytes(v, h) ==
    [count |-> StrLenOf(zstr_data(v, h)), hi |-> StrLenOf(zstr_data(v, h))]

\* the count returned and the highest offset read
zstr_count_runes(v, h) == CountFrom(zstr_data(v, h), 0, 0, 0)

(* ---------------------------------------------------------------- state *)
VARIABLES
    vals,     \* the zstr variables of the program, by slot
    made,     \* the slots that hold a constructed value
    heap,     \* address -> bytes of the allocation, << >> when not allocated
    ext,      \* addresses of buffers the caller owns (returned by zstr_take)
    last,     \* the last call: name, slot, status, arguments
    budget,   \* mutating calls still to be explored
    aborted,  \* the run was stopped by an out-of-bounds access
    cursor,   \* the decoding position handed to zstr_next_rune (const char **p)
    arg,      \* the arguments of the view function under study
    it,       \* the caller's zstr_split_iter
    out       \* what the last read-only call returned or stored

vars == <<vals, made, heap, ext, last, budget, aborted, cursor, arg, it, out>>

\* the variables of the read-only layer (UTF-8, views, split)
readvars == <<cursor, arg, it, out>>
NoArg == [w |-> ViewOf(<< >>, 0, 0), start |-> 0, len |-> 0]
NoIter == [source |-> ViewOf(<< >>, 0, 0), delim |-> << >>,
           current_pos |-> 0, finished |-> FALSE]
\* parts: the views stored in *out_part so far, in order
\* hi: the highest offset the call read in the data buffer
NoOut == [ok |-> FALSE, val |-> 0, w |-> ViewOf(<< >>, 0, 0), written |-> FALSE,
          parts |-> << >>, hi |-> 0]

Slots == {1, 2}

\* the last call: its name, slot, status, whether an allocation failed in it,
\* its arguments (a, b: byte strings, n: a number or the returned byte or
\* pointer), and the form and length of the value before it
NoCall == [op |-> "none", i |-> 0, ret |-> Z_OK, failed |-> FALSE,
           a |-> << >>, b |-> << >>, n |-> 0, long0 |-> FALSE, len0 |-> 0]
Call(op, i, r, a, b, n) ==
    [op |-> op, i |-> i, ret |-> r.ret, failed |-> r.failed,
     a |-> a, b |-> b, n |-> n,
     long0 |-> IF i \in made THEN vals[i].is_long ELSE FALSE,
     len0 |-> IF i \in made THEN zstr_len(vals[i]) ELSE 0]

InitWith(k) ==
    /\ vals = [i \in Slots |-> zstr_init]
    /\ made = {}
    /\ heap = [a \in Addr |-> << >>]
    /\ ext = {}
    /\ last = NoCall
    /\ budget = k
    /\ aborted = FALSE
    /\ cursor = 0
    /\ arg = NoArg
    /\ it = NoIter
    /\ out = NoOut

\* a constructor call stores its result in an unconstructed slot
Construct(i, r, op, a, n) ==
    /\ ~aborted
    /\ i \notin made
    /\ vals' = [vals EXCEPT ![i] = r.v]
    /\ heap' = r.h
    /\ made' = made \cup {i}
    /\ last' = Call(op, i, r, a, << >>, n)
    /\ aborted' = r.abort
    /\ UNCHANGED <<ext, budget, readvars>>

\* a call on a constructed value stores the value and heap it leaves
Mutate(i, r, op, a, b, n) ==
    /\ ~aborted
    /\ i \in made
    /\ budget > 0
    /\ vals' = [vals EXCEPT ![i] = r.v]
    /\ heap' = r.h
    /\ last' = Call(op, i, r, a, b, n)
    /\ budget' = budget - 1
    /\ aborted' = r.abort
    /\ UNCHANGED <<made, ext, readvars>>

(* ---------------------------------------------------------------- inputs *)
AB(n) == [k \in 1..n |-> IF k % 2 = 1 THEN 97 ELSE 98]

\* byte strings given to zstr_from_len: both sides of ZSTR_SSO_CAP, embedded
\* 0x00, leading and trailing blanks
FromInputs ==
    { << >>, <<97>>, <<97, 0, 97>>, <<32, 97, 98, 32>>,
      AB(22), AB(23), AB(24), <<97, 0>> \o AB(22), <<32>> \o AB(22) \o <<32>> }

PushInputs == {97, 0, 32}
CatInputs == { <<98>>, <<32, 97>>, Fill(20, 97) }
ReserveInputs == {10, 23, 30, 60}
\* results of vsnprintf: an encoding error, and texts that fit the inline
\* buffer, fill it exactly, and need the heap
FmtInputs ==
    { [len |-> 0 - 1, text |-> << >>] }
    \cup { [len |-> Len(t), text |-> t] : t \in { << >>, <<120>>, Fill(22, 120) } }
CapInputs == {0, 23, 24, 40}
\* <<target, replacement>>
ReplaceInputs ==
    { <<<<97>>, << >>>>, <<<<97, 98>>, <<98>>>>, <<<<98>>, <<97, 97, 98>>>>,
      <<<<99>>, <<97>>>>, <<<< >>, <<97>>>> }
\* <<content, cap>> of the buffers handed to zstr_own (len <= cap)
OwnInputs ==
    { <<<<97>>, 8>>, <<AB(22), 23>>, <<AB(23), 23>>, <<AB(23), 30>>, <<AB(24), 24>>, <<AB(24), 30>> }
\* what lies behind an object in memory when a scan runs past it
StrayInputs == { <<0>>, <<98, 0>> }

\* bytes on both sides of every test of the decoder and the validator: ASCII,
\* continuation bytes around 0x90 and 0xA0, the lead bytes 0xC0 0xC2 0xE0 0xED
\* 0xF0 0xF4 0xF5 0xF8
Utf8Bytes == {65, 128, 143, 144, 159, 160, 192, 194, 224, 237, 240, 244, 245, 248}
SeqsUpTo(S, n) == UNION { [1..k -> S] : k \in 0..n }
\* every string of up to MaxUtf8Len of these bytes, every 4-byte lead with
\* three of them, and strings that end at the last byte of an inline buffer
\* and of a heap buffer
Utf8Inputs ==
    SeqsUpTo(Utf8Bytes, MaxUtf8Len)
    \cup { <<lead>> \o t : lead \in {240, 244}, t \in [1..3 -> Utf8Bytes] }
    \cup { pad \o t : pad \in {AB(21), AB(23)}, t \in SeqsUpTo(Utf8Bytes, 1) }
Utf8Stray == { <<0>>, <<128, 0>> }

\* views of 0..MaxSubLen bytes at the start and in the middle of a C string
SubViews ==
    { ViewOf(<<120>> \o AB(MaxSubLen) \o <<0>>, off, n) :
          off \in 0..1, n \in 0..MaxSubLen }
\* size_t arguments: small ones and the largest ones
SubSizes == 0..(MaxSubLen + 1) \cup { SizeMod - k : k \in 1..(MaxSubLen + 1) }

\* '+' '-' '0' '1' '2' '8' '9' 'a'
IntBytes == {43, 45, 48, 49, 50, 56, 57, 97}
\* views of up to MaxIntLen of these bytes inside a longer string
IntViews ==
    { ViewOf(<<49>> \o t \o <<49, 0>>, 1, Len(t)) : t \in SeqsUpTo(IntBytes, MaxIntLen) }

\* sources of up to MaxSplitLen bytes 'a' and ',', each as a whole C string
\* and as the front of a longer one
SplitSources ==
    { ViewOf(t \o rest, 0, Len(t)) :
          t \in SeqsUpTo({97, 44}, MaxSplitLen), rest \in {<<0>>, <<44, 97, 0>>} }
SplitDelims == { <<44>>, <<44, 44>>, << >> }
\* what lies behind the source's memory
SplitStray == { <<0>>, <<97, 44, 44, 0>> }

(* --------------------------------------------------------------- actions *)
\* The choices an action offers are the ones the call can tell apart: allocator
\* outcomes when it allocates, a garbage value when it reads an indeterminate
\* byte, an out-of-bounds outcome when it leaves its buffer.
RECURSIVE ScanEnd(_, _)
\* index of the first byte at or after k that is 0x00 or indeterminate
ScanEnd(mem, k) ==
    IF k >= Len(mem) THEN Len(mem)
    ELSE IF mem[k + 1] = 0 \/ mem[k + 1] = Indet THEN k ELSE ScanEnd(mem, k + 1)

\* the C string in the data buffer ends at a 0x00 of the buffer
Terminated(mem) == LET z == ScanEnd(mem, 0) IN z < Len(mem) /\ mem[z + 1] = 0

GarbageFor(reads) == IF reads THEN Garbage ELSE {0}
StrayFor(leaves) == IF leaves THEN StrayInputs ELSE {<<0>>}
UbFor(leaves) == IF leaves THEN UbModes ELSE {"overrun"}
ReallocFor(v) == IF v.is_long THEN AllocModes ELSE {"fail", "move"}

DoInit(i) == Construct(i, Res(zstr_init, heap, Z_OK, FALSE), "init", << >>, 0)

FromLen(i) ==
    \E b \in FromInputs, am \in {"fail", "move"} :
        Construct(i, zstr_from_len(b, heap, am), "from_len", b, 0)

WithCapacity(i) ==
    \E cap \in CapInputs, am \in {"fail", "move"} :
        Construct(i, zstr_with_capacity(cap, heap, am), "with_capacity", << >>, cap)

\* the caller allocates cap + 1 bytes, stores the content and its terminator,
\* and hands the buffer over
Own(i) ==
    \E inp \in OwnInputs :
    \E ub \in UbFor(inp[2] <= ZSTR_SSO_CAP /\ Len(inp[1]) >= ZSTR_SSO_CAP) :
        LET b == inp[1]
            cap == inp[2]
            m == Malloc(heap, cap + 1, "move")
            mem == Poke(MemCpy(m.h[m.p], 0, b, 0, Len(b)), Len(b), 0)
        IN  /\ m.p # NULL
            /\ Construct(i, zstr_own(m.p, Len(b), cap, [m.h EXCEPT ![m.p] = mem], ub),
                         "own", b, cap)

Dup(i, j) ==
    /\ i \in made
    /\ \E am \in {"fail", "move"} :
           Construct(j, zstr_dup(vals[i], heap, am), "dup", << >>, i)

Reserve(i) ==
    \E n \in ReserveInputs, am \in ReallocFor(vals[i]) :
        Mutate(i, zstr_reserve(vals[i], heap, n, am), "reserve", << >>, << >>, n)

ShrinkToFit(i) ==
    \E am \in ReallocFor(vals[i]),
       ub \in UbFor(vals[i].is_long /\ vals[i].llen = ZSTR_SSO_CAP) :
        Mutate(i, zstr_shrink_to_fit(vals[i], heap, am, ub), "shrink_to_fit",
               << >>, << >>, 0)

PushChar(i) ==
    \E c \in PushInputs, am \in ReallocFor(vals[i]) :
        Mutate(i, zstr_push_char(vals[i], heap, c, am), "push_char", <<c>>, << >>, 0)

PopChar(i) ==
    LET r == zstr_pop_char(vals[i], heap)
    IN  Mutate(i, r, "pop_char", << >>, << >>, r.out)

CatLen(i) ==
    \E src \in CatInputs, am \in ReallocFor(vals[i]) :
        Mutate(i, zstr_cat_len(vals[i], heap, src, am), "cat_len", src, << >>, 0)

Fmt(i) ==
    \E f \in FmtInputs, am \in ReallocFor(vals[i]) :
        Mutate(i, zstr_fmt(vals[i], heap, f, am), "fmt", f.text, << >>, f.len)

Clear(i) == Mutate(i, zstr_clear(vals[i], heap), "clear", << >>, << >>, 0)

Trim(i) ==
    \E g \in GarbageFor(\E k \in 1..zstr_len(vals[i]) :
                            k <= Len(zstr_data(vals[i], heap))
                            /\ zstr_data(vals[i], heap)[k] = Indet) :
        Mutate(i, zstr_trim(vals[i], heap, g), "trim", << >>, << >>, g)

Replace(i) ==
    LET plain == Terminated(zstr_data(vals[i], heap))
    IN  \E tr \in ReplaceInputs, am \in {"fail", "move"}, g \in GarbageFor(~plain),
           stray \in StrayFor(~plain), ub \in UbFor(~plain) :
            Mutate(i, zstr_replace(vals[i], heap, tr[1], tr[2], am, g, stray, ub),
                   "replace", tr[1], tr[2], 0)

\* zstr_take: the returned buffer now belongs to the caller
Take(i) ==
    \E am \in {"fail", "move"} :
        LET r == zstr_take(vals[i], heap, am)
        IN  /\ ~aborted
            /\ i \in made
            /\ budget > 0
            /\ vals' = [vals EXCEPT ![i] = r.v]
            /\ heap' = r.h
            /\ ext' = IF r.out = NULL THEN ext ELSE ext \cup {r.out}
            /\ last' = Call("take", i, r, << >>, << >>, r.out)
            /\ budget' = budget - 1
            /\ UNCHANGED <<made, aborted, readvars>>

\* the caller frees a buffer zstr_take gave it
CallerFree ==
    \E p \in ext :
        /\ ~aborted
        /\ heap' = Free(heap, p)
        /\ ext' = ext \ {p}
        /\ last' = [NoCall EXCEPT !.op = "caller_free", !.n = p]
        /\ UNCHANGED <<vals, made, budget, aborted, readvars>>

Destroy(i) == Mutate(i, zstr_free(vals[i], heap), "free", << >>, << >>, 0)

\* a read-only call leaves the values and the heap alone
ReadOnly(op, i) ==
    /\ last' = [NoCall EXCEPT !.op = op, !.i = i]
    /\ UNCHANGED <<vals, made, heap, ext, budget>>

IsValidUtf8(i) ==
    \E stray \in Utf8Stray, ub \in UbModes :
        LET r == zstr_is_valid_utf8(vals[i], heap, stray, ub)
        IN  /\ ~aborted
            /\ i \in made
            /\ cursor = 0
            /\ out' = [NoOut EXCEPT !.ok = r.ret, !.hi = r.hi]
            /\ aborted' = r.abort
            /\ ReadOnly("is_valid_utf8", i)
            /\ UNCHANGED <<cursor, arg, it>>

\* zstr_next_rune(&p) with p = zstr_cstr(s) + cursor
NextRune(i) ==
    LET r == zstr_next_rune(zstr_data(vals[i], heap), cursor)
    IN  /\ ~aborted
        /\ i \in made
        /\ cursor <= zstr_len(vals[i])
        /\ cursor' = cursor + r.adv
        /\ out' = [NoOut EXCEPT !.val = r.rune, !.hi = r.hi]
        /\ ReadOnly("next_rune", i)
        /\ UNCHANGED <<aborted, arg, it>>

\* like zstr_is_valid_utf8 it takes the value, not the caller's cursor: both
\* are called before the caller starts to decode
CountRunes(i) ==
    LET r == zstr_count_runes(vals[i], heap)
    IN  /\ ~aborted
        /\ i \in made
        /\ cursor = 0
        /\ out' = [NoOut EXCEPT !.val = r.count, !.hi = r.hi]
        /\ ReadOnly("count_runes", i)
        /\ UNCHANGED <<aborted, cursor, arg, it>>

\* a call of a function of views: it reads its arguments and returns
ViewCall(op) ==
    /\ ~aborted
    /\ last.op = "none"
    /\ last' = [NoCall EXCEPT !.op = op]
    /\ UNCHANGED <<vals, made, heap, ext, budget, cursor, arg, it>>

Sub ==
    /\ out' = [NoOut EXCEPT !.w = zstr_sub(arg.w, arg.start, arg.len)]
    /\ aborted' = FALSE
    /\ ViewCall("sub")

ToInt ==
    \E ub \in IntUbModes :
        LET r == zstr_view_to_int(arg.w, ub)
        IN  /\ out' = [NoOut EXCEPT !.ok = r.ok, !.val = r.val, !.written = r.written]
            /\ aborted' = r.abort
            /\ ViewCall("to_int")

SplitNext ==
    \E stray \in SplitStray, ub \in UbModes :
        LET r == zstr_split_next(it, out.w, stray, ub)
        IN  /\ ~aborted
            /\ Len(out.parts) < MaxParts
            /\ it' = r.it
            /\ out' = [out EXCEPT !.ok = r.ret, !.w = r.w,
                                  !.parts = IF r.ret THEN Append(@, r.w) ELSE @]
            /\ aborted' = r.abort
            /\ last' = [NoCall EXCEPT !.op = "split_next"]
            /\ UNCHANGED <<vals, made, heap, ext, budget, cursor, arg>>

(* ------------------------------------------------------- specifications *)
\* every public operation on one value
Init == InitWith(MaxOps)

Next ==
    \/ DoInit(1)
    \/ FromLen(1)
    \/ WithCapacity(1)
    \/ Own(1)
    \/ Reserve(1)
    \/ ShrinkToFit(1)
    \/ PushChar(1)
    \/ PopChar(1)
    \/ CatLen(1)
    \/ Fmt(1)
    \/ Clear(1)
    \/ Trim(1)
    \/ Replace(1)
    \/ Take(1)
    \/ CallerFree
    \/ Destroy(1)

Spec == Init /\ [][Next]_vars

\* an empty value or zstr_from_len, then appends only
InitGrow == InitWith(MaxGrowOps)

NextGrow ==
    \/ DoInit(1)
    \/ FromLen(1)
    \/ CatLen(1)
    \/ PushChar(1)

SpecGrow == InitGrow /\ [][NextGrow]_vars

\* an empty value, then appends, pops and clears
NextList ==
    \/ DoInit(1)
    \/ CatLen(1)
    \/ PushChar(1)
    \/ PopChar(1)
    \/ Clear(1)

SpecList == InitGrow /\ [][NextList]_vars

\* a value, its duplicate, then mutations of either
InitDup == InitWith(MaxDupOps)

\* a mutation of either value, once the duplicate exists
AfterDup(A) == 2 \in made /\ A

NextDup ==
    \/ FromLen(1)
    \/ Dup(1, 2)
    \/ \E i \in Slots :
         \/ AfterDup(Reserve(i))
         \/ AfterDup(ShrinkToFit(i))
         \/ AfterDup(PushChar(i))
         \/ AfterDup(PopChar(i))
         \/ AfterDup(CatLen(i))
         \/ AfterDup(Clear(i))
         \/ AfterDup(Trim(i))
         \/ AfterDup(Replace(i))
         \/ AfterDup(Destroy(i))

SpecDup == InitDup /\ [][NextDup]_vars

\* two values, made in any way, and the calls that allocate, replace, hand
\* over or free a buffer, on either
InitOwners == InitWith(MaxOwnOps)

NextOwners ==
    \/ Dup(1, 2)
    \/ CallerFree
    \/ \E i \in Slots :
         \/ FromLen(i)
         \/ WithCapacity(i)
         \/ Own(i)
         \/ Reserve(i)
         \/ CatLen(i)
         \/ ShrinkToFit(i)
         \/ Replace(i)
         \/ Take(i)
         \/ Destroy(i)

SpecOwners == InitOwners /\ [][NextOwners]_vars

\* a value made by zstr_from_len from a UTF-8 input, then the validator
InitUtf8 ==
    \E b \in Utf8Inputs :
        LET r == zstr_from_len(b, [a \in Addr |-> << >>], "move")
        IN  /\ vals = [i \in Slots |-> IF i = 1 THEN r.v ELSE zstr_init]
            /\ made = {1}
            /\ heap = r.h
            /\ ext = {}
            /\ last = [NoCall EXCEPT !.op = "from_len", !.i = 1, !.a = b]
            /\ budget = 0
            /\ aborted = FALSE
            /\ cursor = 0
            /\ arg = NoArg
            /\ it = NoIter
            /\ out = NoOut

NextUtf8 == IsValidUtf8(1)

SpecUtf8 == InitUtf8 /\ [][NextUtf8]_vars

\* the same values, decoded rune by rune
NextRunes == NextRune(1)

SpecRunes == InitUtf8 /\ [][NextRunes]_vars

\* the same values under the validator, the decoder and the counter
NextUtf8Reads == IsValidUtf8(1) \/ NextRune(1) \/ CountRunes(1)

SpecUtf8Reads == InitUtf8 /\ [][NextUtf8Reads]_vars

\* the read-only layer before a call, its arguments and iterator chosen
InitArgs(a, itr) ==
    /\ vals = [i \in Slots |-> zstr_init]
    /\ made = {}
    /\ heap = [p \in Addr |-> << >>]
    /\ ext = {}
    /\ last = NoCall
    /\ budget = 0
    /\ aborted = FALSE
    /\ cursor = 0
    /\ arg = a
    /\ it = itr
    /\ out = NoOut

\* zstr_sub on every view, start and len
InitSub ==
    \E w \in SubViews, start \in SubSizes, len \in SubSizes :
        InitArgs([w |-> w, start |-> start, len |-> len], NoIter)

NextSub == Sub

SpecSub == InitSub /\ [][NextSub]_vars

\* zstr_view_to_int on every view
InitToInt == \E w \in IntViews : InitArgs([NoArg EXCEPT !.w = w], NoIter)

NextToInt == ToInt

SpecToInt == InitToInt /\ [][NextToInt]_vars

\* the iterator zstr_split_init returns, for every source and delimiter
InitSplit ==
    \E src \in SplitSources, d \in SplitDelims :
        InitArgs([NoArg EXCEPT !.w = src], zstr_split_init(src, d))

NextSplit == SplitNext

SpecSplit == InitSplit /\ [][NextSplit]_vars

(* ---------------------------------------------------------- properties *)
Content(i) == zstr_as_view(vals[i], heap)
Length(i) == zstr_len(vals[i])
\* content capacity of the form in use: the heap capacity, or the inline
\* buffer less its terminator byte
Capacity(v) == IF v.is_long THEN v.lcap ELSE ZSTR_SSO_CAP - 1
\* form, length and content
View(i) == <<vals[i].is_long, Length(i), Content(i)>>
Front(s) == SubSeq(s, 1, Len(s) - 1)
HasByte(s, b) == \E k \in 1..Len(s) : s[k] = b

LengthBounds(v) ==
    IF v.is_long THEN v.llen <= v.lcap ELSE v.slen < ZSTR_SSO_CAP

\* C1: after any sequence of public operations the length respects the bounds
\* of the form in use: length < ZSTR_SSO_CAP when inline, length <= capacity
\* when long.
C1_LengthBounds == \A i \in made : LengthBounds(vals[i])

TerminatorInside(v, h) ==
    LET mem == zstr_data(v, h)
        n == zstr_len(v)
    IN  /\ n < Len(mem)
        /\ mem[n + 1] = 0
        /\ IF v.is_long THEN n <= v.lcap /\ Len(mem) = v.lcap + 1
           ELSE n <= ZSTR_SSO_CAP - 1

\* C2: after any sequence of public operations the byte at index length() of
\* the data buffer is 0x00 and that index lies inside the buffer.
C2_Terminator == \A i \in made : TerminatorInside(vals[i], heap)

\* C3 (as claimed): a long value stays long across every call except
\* shrink_to_fit, free and take.
C3_LongStaysLong ==
    [][\A i \in made :
          (vals[i].is_long /\ ~vals'[i].is_long)
              => last'.op \in {"shrink_to_fit", "free", "take"}]_vars

\* C3 (amended): a long value stays long across every call except
\* shrink_to_fit, free, take, and a replace that found the target and whose
\* result is shorter than ZSTR_SSO_CAP (the result is built in a fresh value).
C3_LongStaysLongAmended ==
    [][\A i \in made :
          (vals[i].is_long /\ ~vals'[i].is_long)
              => \/ last'.op \in {"shrink_to_fit", "free", "take"}
                 \/ /\ last'.op = "replace"
                    /\ last'.ret = Z_OK
                    /\ zstr_len(vals'[i]) < ZSTR_SSO_CAP]_vars

\* a long value was cleared and is still long
C3_Witness ==
    /\ last.op = "clear" /\ last.long0 /\ last.len0 > 0
    /\ vals[1].is_long

\* C4: when an allocation fails inside reserve, cat_len, push_char or replace,
\* the call returns Z_ERR and the value and its buffer are what they were.
C4_AllocFailure ==
    [][(last'.op \in {"reserve", "cat_len", "push_char", "replace"} /\ last'.failed)
          => (last'.ret = Z_ERR /\ vals' = vals /\ heap' = heap)]_vars

\* the allocation of the result buffer failed inside replace on a long value
C4_Witness ==
    /\ last.op = "replace" /\ last.failed /\ last.ret = Z_ERR
    /\ vals[1].is_long /\ Length(1) >= ZSTR_SSO_CAP

\* C5: when the allocation succeeds, zstr_from_len(b) has length |b| and its
\* first |b| bytes are b, embedded 0x00 bytes included.
C5_RoundTrip ==
    \A i \in made :
        (last.op = "from_len" /\ last.i = i /\ ~last.failed)
            => (Length(i) = Len(last.a) /\ Content(i) = last.a)

\* a heap-backed value made from bytes with an embedded 0x00
C5_Witness ==
    /\ last.op = "from_len" /\ ~last.failed
    /\ vals[1].is_long /\ HasByte(last.a, 0) /\ Length(1) > ZSTR_SSO_CAP

\* C6: from an empty value or from_len(b), under appends only, the value is
\* inline with no allocation while its length is < ZSTR_SSO_CAP, and long with
\* capacity >= length once its length is >= ZSTR_SSO_CAP.
C6_InlineIffShort ==
    \A i \in made :
        /\ Length(i) < ZSTR_SSO_CAP =>
              (~vals[i].is_long /\ FreeAddrs(heap) = Addr)
        /\ Length(i) >= ZSTR_SSO_CAP =>
              (vals[i].is_long /\ vals[i].lcap >= vals[i].llen)

\* push_char took the value from length 22 to length 23
C6_Witness ==
    /\ last.op = "push_char" /\ last.ret = Z_OK /\ ~last.long0
    /\ vals[1].is_long /\ Length(1) = ZSTR_SSO_CAP

\* C7: under cat_len, push_char, pop_char and clear from an empty value, the
\* content follows an abstract byte list: an append adds its bytes at the end
\* and leaves the earlier ones alone (capacity >= length afterwards), pop_char
\* returns and removes the last byte, or returns 0x00 and changes nothing when
\* empty, clear empties.
C7_ListRefinement ==
    [][\A i \in made : last'.i = i =>
          /\ (last'.op = "cat_len" /\ last'.ret = Z_OK) =>
                /\ Content(i)' = Content(i) \o last'.a
                /\ Length(i)' = Length(i) + Len(last'.a)
                /\ Capacity(vals'[i]) >= Length(i)'
          /\ (last'.op = "push_char" /\ last'.ret = Z_OK) =>
                /\ Content(i)' = Content(i) \o last'.a
                /\ Length(i)' = Length(i) + 1
                /\ Capacity(vals'[i]) >= Length(i)'
          /\ last'.op = "pop_char" =>
                IF Length(i) = 0
                THEN last'.n = 0 /\ vals' = vals /\ heap' = heap
                ELSE /\ last'.n = Content(i)[Length(i)]
                     /\ Content(i)' = Front(Content(i))
                     /\ Length(i)' = Length(i) - 1
          /\ last'.op = "clear" => (Content(i)' = << >> /\ Length(i)' = 0)]_vars

\* three appends of 20 bytes: the promotion and one reallocation lie behind
C7_Witness ==
    /\ last.op = "cat_len" /\ last.ret = Z_OK
    /\ vals[1].is_long /\ Length(1) = 60 /\ vals[1].lcap > 46

\* C8: shrink_to_fit leaves the length and every content byte unchanged, the
\* capacity does not grow and is the minimum of the resulting form, and a
\* failed reallocation leaves the value as it was.
C8_ShrinkFrame ==
    [][\A i \in made :
          (last'.op = "shrink_to_fit" /\ last'.i = i) =>
              /\ Length(i)' = Length(i)
              /\ Content(i)' = Content(i)
              /\ Capacity(vals'[i]) <= Capacity(vals[i])
              /\ (vals'[i].is_long /\ ~last'.failed /\ ~aborted')
                    => vals'[i].lcap = vals'[i].llen
              /\ last'.failed => (vals' = vals /\ heap' = heap)]_vars

\* shrink_to_fit moved a non-empty long value back to the inline form
C8_Witness ==
    /\ last.op = "shrink_to_fit" /\ last.long0 /\ last.len0 > 0
    /\ ~vals[1].is_long /\ ~aborted

\* the other slot
Other(i) == 3 - i

\* C9 (as claimed): duplicate returns a value with the length and bytes of
\* its source, and a later call on either value leaves the other unchanged.
C9_DupIndependent ==
    [][/\ last'.op = "dup" =>
             (Length(2)' = Length(1)' /\ Content(2)' = Content(1)')
       /\ \A i \in made : (last'.i = i /\ Other(i) \in made) =>
             View(Other(i))' = View(Other(i))]_vars

\* C9 (amended): when its allocation succeeds, duplicate returns a value with
\* the length and bytes of its source that shares no buffer with it (when the
\* allocation fails it returns an empty inline value); a later call on either
\* value leaves the other's form, length and content unchanged.
C9_DupIndependentAmended ==
    [][/\ (last'.op = "dup" /\ ~last'.failed) =>
             /\ Length(2)' = Length(1)'
             /\ Content(2)' = Content(1)'
             /\ (vals'[1].is_long /\ vals'[2].is_long) => vals'[1].ptr # vals'[2].ptr
       /\ (last'.op = "dup" /\ last'.failed) =>
             (~vals'[2].is_long /\ Length(2)' = 0)
       /\ \A i \in made : (last'.i = i /\ Other(i) \in made) =>
             View(Other(i))' = View(Other(i))]_vars

\* the source of a heap-backed duplicate was destroyed; the duplicate is there
C9_Witness ==
    /\ 2 \in made
    /\ last.op = "free" /\ last.i = 1 /\ last.long0
    /\ vals[2].is_long /\ Length(2) >= ZSTR_SSO_CAP

RECURSIVE AbsCount(_, _)
\* non-overlapping occurrences of t in the byte list s, left to right
AbsCount(s, t) ==
    IF Len(s) < Len(t) THEN 0
    ELSE IF SubSeq(s, 1, Len(t)) = t
    THEN 1 + AbsCount(SubSeq(s, Len(t) + 1, Len(s)), t)
    ELSE AbsCount(SubSeq(s, 2, Len(s)), t)

RECURSIVE AbsReplace(_, _, _)
\* s with every such occurrence of t replaced by r
AbsReplace(s, t, r) ==
    IF Len(s) < Len(t) THEN s
    ELSE IF SubSeq(s, 1, Len(t)) = t
    THEN r \o AbsReplace(SubSeq(s, Len(t) + 1, Len(s)), t, r)
    ELSE <<s[1]>> \o AbsReplace(SubSeq(s, 2, Len(s)), t, r)

\* C10: for a non-empty target, replace leaves the content with every
\* non-overlapping occurrence of the target replaced, the length is
\* old_length + occurrences * (|replacement| - |target|) and is the number of
\* bytes written before the terminator; without an occurrence the value is
\* unchanged and the call succeeds.
C10_ReplaceAll ==
    [][\A i \in made :
          (last'.op = "replace" /\ last'.i = i /\ last'.a # << >>
             /\ ~last'.failed /\ ~aborted') =>
              LET old == Content(i)
                  occ == AbsCount(old, last'.a)
              IN  /\ last'.ret = Z_OK
                  /\ Content(i)' = AbsReplace(old, last'.a, last'.b)
                  /\ Length(i)' = Len(old) + occ * (Len(last'.b) - Len(last'.a))
                  /\ StrLenFrom(zstr_data(vals'[i], heap'), 0) = Length(i)'
                  /\ occ = 0 => (vals' = vals /\ heap' = heap)]_vars

\* C11: replace called with an empty target returns failure and leaves the
\* value's form, length, capacity and content, and the heap, unchanged.
C11_EmptyTarget ==
    [][(last'.op = "replace" /\ last'.a = << >>) =>
          /\ last'.ret = Z_ERR
          /\ ~last'.failed /\ ~aborted'
          /\ vals' = vals /\ heap' = heap]_vars

\* replace with an empty target was called on a long value
C11_Witness ==
    /\ last.op = "replace" /\ last.a = << >> /\ last.ret = Z_ERR
    /\ vals[1].is_long /\ Length(1) >= ZSTR_SSO_CAP

\* the non-mutating trim of the content of v, its indeterminate bytes read as g
ViewTrimmed(v, h, g) ==
    ViewBytes(zstr_view_trim(ViewOf(Resolve(zstr_as_view(v, h), g), 0,
                                    Len(zstr_as_view(v, h)))))

\* C12: in-place trim leaves exactly the bytes the view trim (rstrip, then
\* lstrip) selects from the original content, with their values and order;
\* the length is their number and the terminator follows them inside the
\* buffer; an empty or all-whitespace value ends empty with no error; a
\* second trim changes nothing more.
C12_TrimRefinesView ==
    [][\A i \in made :
          (last'.op = "trim" /\ last'.i = i /\ ~aborted') =>
              LET g == last'.n
                  kept == ViewTrimmed(vals[i], heap, g)
                  again == zstr_trim(vals'[i], heap', g)
              IN  /\ last'.ret = Z_OK
                  /\ Resolve(Content(i)', g) = kept
                  /\ Length(i)' = Len(kept)
                  /\ TerminatorInside(vals'[i], heap')
                  /\ (\A k \in 1..Len(Content(i)) :
                         isspace(Resolve(Content(i), g)[k])) => Length(i)' = 0
                  /\ zstr_as_view(again.v, again.h) = Content(i)'
                  /\ zstr_len(again.v) = Length(i)']_vars

InRange(b, lo, hi) == lo <= b /\ b <= hi
Drop(s, n) == SubSeq(s, n + 1, Len(s))

RECURSIVE WellFormed(_)
\* well-formed UTF-8 byte sequences (Unicode, table 3-7)
WellFormed(s) ==
    IF s = << >> THEN TRUE
    ELSE LET c == s[1]
             n == Len(s)
         IN  IF c <= 127 THEN WellFormed(Drop(s, 1))
             ELSE IF InRange(c, 194, 223)
             THEN n >= 2 /\ InRange(s[2], 128, 191) /\ WellFormed(Drop(s, 2))
             ELSE IF InRange(c, 224, 239)
             THEN /\ n >= 3
                  /\ InRange(s[2], IF c = 224 THEN 160 ELSE 128,
                                   IF c = 237 THEN 159 ELSE 191)
                  /\ InRange(s[3], 128, 191)
                  /\ WellFormed(Drop(s, 3))
             ELSE IF InRange(c, 240, 244)
             THEN /\ n >= 4
                  /\ InRange(s[2], IF c = 240 THEN 144 ELSE 128,
                                   IF c = 244 THEN 143 ELSE 191)
                  /\ InRange(s[3], 128, 191)
                  /\ InRange(s[4], 128, 191)
                  /\ WellFormed(Drop(s, 4))
             ELSE FALSE

\* C13: on a byte string without 0x00, is_valid_utf8 returns true exactly
\* when the bytes are well-formed UTF-8: it rejects lone continuation bytes,
\* overlong forms, surrogates, values above U+10FFFF and truncated sequences,
\* and accepts everything else; a call that is stopped at its read behind
\* the terminator was given an ill-formed string.
C13_ValidIffWellFormed ==
    last.op = "is_valid_utf8" =>
        /\ ~HasByte(Content(1), 0)
        /\ ~aborted => (out.ok <=> WellFormed(Content(1)))
        /\ aborted => ~WellFormed(Content(1))

\* a 4-byte sequence (U+10000) was accepted
C13_Witness ==
    /\ last.op = "is_valid_utf8" /\ out.ok /\ ~aborted
    /\ Content(1) = <<240, 144, 128, 128>>

\* the encoded length the lead byte announces, 0 for a byte that is no lead
LeadLen(c) ==
    IF c < 128 THEN 1 ELSE IF InRange(c, 192, 223) THEN 2
    ELSE IF InRange(c, 224, 239) THEN 3 ELSE IF InRange(c, 240, 247) THEN 4 ELSE 0

\* the continuation bytes of the sequence at offset p all have the 10xxxxxx form
TailOk(m, p) ==
    \A j \in 1..(LeadLen(m[p + 1]) - 1) :
        p + 1 + j <= Len(m) /\ InRange(m[p + 1 + j], 128, 191)

\* the scalar the sequence at offset p encodes
Scalar(m, p) ==
    LET c == m[p + 1]
        x(j) == m[p + 1 + j] - 128
    IN  CASE LeadLen(c) = 1 -> c
          [] LeadLen(c) = 2 -> (c - 192) * 64 + x(1)
          [] LeadLen(c) = 3 -> (c - 224) * 4096 + x(1) * 64 + x(2)
          [] LeadLen(c) = 4 -> (c - 240) * 262144 + x(1) * 4096 + x(2) * 64 + x(3)

\* what a decode step at a byte other than the terminator does
DecodeStep(m) ==
    LET c == m[cursor + 1]
    IN  IF LeadLen(c) > 0 /\ TailOk(m, cursor)
        THEN cursor' = cursor + LeadLen(c) /\ out'.val = Scalar(m, cursor)
        ELSE cursor' = cursor + 1 /\ out'.val = ZSTR_UTF8_INVALID

\* C14 (as claimed): every call to decode_next advances the cursor by 1 to 4
\* bytes: by the encoded length with the decoded scalar, or by one byte with
\* the replacement code point.
C14_DecodeAdvances ==
    [][last'.op = "next_rune" =>
          /\ cursor' - cursor >= 1 /\ cursor' - cursor <= 4
          /\ DecodeStep(zstr_data(vals[1], heap))]_vars

\* C14 (amended): that holds for every call at a byte other than 0x00; a call
\* at the terminator returns 0 and leaves the cursor where it is.
C14_DecodeAdvancesAmended ==
    [][last'.op = "next_rune" =>
          LET m == zstr_data(vals[1], heap)
          IN  IF m[cursor + 1] = 0
              THEN cursor' = cursor /\ out'.val = 0
              ELSE /\ cursor' - cursor >= 1 /\ cursor' - cursor <= 4
                   /\ DecodeStep(m)]_vars

\* a 4-byte sequence was decoded to U+10000
C14_Witness ==
    /\ last.op = "next_rune" /\ cursor = 4 /\ out.val = 65536
    /\ Content(1) = <<240, 144, 128, 128>>

\* the view o lies entirely inside the view w
Inside(o, w) ==
    \/ o.len = 0
    \/ o.mem = w.mem /\ o.off >= w.off /\ o.off + o.len <= w.off + w.len

\* C15: for all size_t start and len, wrapping sums included, sub(v, start,
\* len) lies inside v: it is empty if start >= v.len, and else starts at
\* offset start and has length min(len, v.len - start).
C15_SubClamps ==
    last.op = "sub" =>
        /\ Inside(out.w, arg.w)
        /\ IF arg.start >= arg.w.len THEN out.w.len = 0
           ELSE /\ out.w.mem = arg.w.mem
                /\ out.w.off = arg.w.off + arg.start
                /\ out.w.len = Min({arg.len, arg.w.len - arg.start})

IsDigit(b) == InRange(b, 48, 57)
\* an optional single sign, then one or more digits, and nothing else
IsDecimal(s) ==
    LET body == IF s # << >> /\ s[1] \in {43, 45} THEN Drop(s, 1) ELSE s
    IN  body # << >> /\ \A k \in 1..Len(body) : IsDigit(body[k])

RECURSIVE DigitsValue(_)
DigitsValue(s) ==
    IF s = << >> THEN 0 ELSE DigitsValue(Front(s)) * 10 + (s[Len(s)] - 48)

\* the signed decimal value the text denotes
Denoted(s) ==
    IF s[1] = 45 THEN 0 - DigitsValue(Drop(s, 1))
    ELSE IF s[1] = 43 THEN DigitsValue(Drop(s, 1)) ELSE DigitsValue(s)

\* C16: to_int succeeds exactly on an optional sign followed by one or more
\* digits and nothing else, and then stores the signed decimal value the
\* digits denote; on every other input it fails and does not write out.
C16_ToInt ==
    last.op = "to_int" =>
        LET s == ViewBytes(arg.w)
        IN  /\ out.ok <=> IsDecimal(s)
            /\ out.ok => (out.written /\ out.val = Denoted(s))
            /\ ~out.ok => ~out.written

\* offset of the first occurrence of d in s, or -1
FirstOcc(s, d) ==
    LET at == { k \in 0..(Len(s) - Len(d)) : SubSeq(s, k + 1, k + Len(d)) = d }
    IN  IF at = {} THEN 0 - 1 ELSE Min(at)

RECURSIVE AbsSplit(_, _)
\* the segments of s between the non-overlapping left-to-right occurrences of
\* the non-empty d
AbsSplit(s, d) ==
    LET k == FirstOcc(s, d)
    IN  IF k < 0 THEN <<s>>
        ELSE <<SubSeq(s, 1, k)>> \o AbsSplit(Drop(s, k + Len(d)), d)

RECURSIVE Join(_, _)
Join(segs, d) ==
    IF Len(segs) = 1 THEN segs[1] ELSE segs[1] \o d \o Join(Tail(segs), d)

\* the bytes of the segments yielded so far
Yielded == [k \in 1..Len(out.parts) |-> ViewBytes(out.parts[k])]

\* C17: with a non-empty delimiter the split sequence yields, in order, the
\* k+1 segments between the k non-overlapping occurrences of the delimiter
\* and then stops; joined with the delimiter they give the source; an empty
\* source or a source ending with the delimiter ends with an empty segment.
C17_SplitSegments ==
    it.delim # << >> =>
        LET want == AbsSplit(ViewBytes(it.source), it.delim)
        IN  /\ ~aborted
            /\ Len(Yielded) <= Len(want)
            /\ \A k \in 1..Len(Yielded) : Yielded[k] = want[k]
            /\ it.finished <=> Len(Yielded) = Len(want)
            /\ it.finished => Join(Yielded, it.delim) = ViewBytes(it.source)

\* C18: once an advance has yielded the final segment, finished is true and
\* stays true: every further advance returns false and changes neither the
\* iterator nor the caller's output view.
C18_FinishedIsFinal ==
    [][it.finished =>
          /\ it' = it
          /\ out'.w = out.w /\ out'.parts = out.parts
          /\ last'.op = "split_next" => ~out'.ok]_vars

\* "a,,a" was split into "a", "", "a" and a further advance returned false
C18_Witness ==
    /\ it.finished /\ last.op = "split_next" /\ ~out.ok /\ ~aborted
    /\ ViewBytes(it.source) = <<97, 44, 44, 97>> /\ it.delim = <<44>>
    /\ Yielded = << <<97>>, << >>, <<97>> >>

\* C19: an advance of a split sequence with an empty delimiter is guarded: it
\* reports an error, or it yields the remainder and finishes, so no stream of
\* segments is yielded while the cursor stands still.
C19_EmptyDelimiterGuarded ==
    [][(last'.op = "split_next" /\ it.delim = << >> /\ ~it.finished) =>
          (~out'.ok \/ it'.finished)]_vars

\* C20: adopt(ptr, len, cap) with len <= cap returns a value of length len
\* whose content is the first len bytes of ptr and which satisfies the
\* representation invariants; in the inline case the bytes were copied and
\* the buffer was freed, in the long case ptr, len and cap are stored and the
\* buffer is neither copied nor freed.
C20_Adopt ==
    [][\A i \in Slots :
          (last'.op = "own" /\ last'.i = i) =>
              LET b == last'.a
                  v == vals'[i]
              IN  /\ ~aborted'
                  /\ zstr_len(v) = Len(b)
                  /\ zstr_as_view(v, heap') = b
                  /\ LengthBounds(v)
                  /\ TerminatorInside(v, heap')
                  /\ IF v.is_long
                     THEN /\ v.lcap = last'.n
                          /\ FreeAddrs(heap') = FreeAddrs(heap) \ {v.ptr}
                          /\ Prefix(heap'[v.ptr], Len(b) + 1) = b \o <<0>>
                     ELSE FreeAddrs(heap') = FreeAddrs(heap)]_vars

\* C21: release() returns a buffer that holds the former content followed by
\* 0x00, the heap pointer of a long value or a fresh copy of an inline one,
\* and leaves the value empty and inline; no later call on the value frees or
\* writes the returned buffer.
C21_Release ==
    [][/\ \A i \in made :
             (last'.op = "take" /\ last'.i = i) =>
                 LET p == last'.n
                     old == Content(i)
                 IN  /\ p # NULL
                     /\ Prefix(heap'[p], Len(old) + 1) = old \o <<0>>
                     /\ IF vals[i].is_long THEN p = vals[i].ptr /\ heap' = heap
                        ELSE p \in FreeAddrs(heap)
                     /\ vals'[i] = zstr_init
                     /\ p \in ext'
       /\ \A p \in ext : last'.op # "caller_free" => heap'[p] = heap[p]]_vars

\* C22: destroy frees the heap buffer of a long value, once, and leaves the
\* value empty and inline; destroy of an inline value, the one a destroy
\* leaves included, frees nothing and leaves the same empty value.
C22_Destroy ==
    [][\A i \in made :
          (last'.op = "free" /\ last'.i = i) =>
              /\ vals'[i] = zstr_init
              /\ ~aborted'
              /\ IF vals[i].is_long
                 THEN /\ heap[vals[i].ptr] # << >>
                      /\ heap' = [heap EXCEPT ![vals[i].ptr] = << >>]
                 ELSE heap' = heap
              /\ LET again == zstr_free(vals'[i], heap')
                 IN  again.v = vals'[i] /\ again.h = heap']_vars

\* a long value was destroyed: its buffer is gone and the value is empty
C22_Witness ==
    /\ last.op = "free" /\ last.long0 /\ last.len0 >= ZSTR_SSO_CAP
    /\ vals[1] = zstr_init /\ FreeAddrs(heap) = Addr

\* C23: reserve(n) changes nothing when n < ZSTR_SSO_CAP or when the value is
\* long with capacity >= n; otherwise, on success, the value is long with
\* capacity exactly n; in every case the length, the content bytes and the
\* terminator are the same after the call as before.
C23_ReserveFrame ==
    [][\A i \in made :
          (last'.op = "reserve" /\ last'.i = i) =>
              LET n == last'.n
                  v == vals[i]
              IN  /\ ~aborted'
                  /\ Length(i)' = Length(i)
                  /\ Content(i)' = Content(i)
                  /\ TerminatorInside(v, heap) => TerminatorInside(vals'[i], heap')
                  /\ IF n < ZSTR_SSO_CAP \/ (v.is_long /\ v.lcap >= n)
                     THEN last'.ret = Z_OK /\ vals' = vals /\ heap' = heap
                     ELSE IF last'.ret = Z_OK
                     THEN vals'[i].is_long /\ vals'[i].lcap = n
                     ELSE vals' = vals /\ heap' = heap]_vars

\* an inline value with content was promoted by reserve
C23_Witness ==
    /\ last.op = "reserve" /\ last.ret = Z_OK /\ ~last.long0 /\ last.len0 > 0
    /\ vals[1].is_long /\ vals[1].lcap = last.n /\ Length(1) = last.len0

\* C24: shrink_to_fit demotes a long value to the inline form exactly when
\* length <= ZSTR_SSO_CAP - 1; a long value with length >= ZSTR_SSO_CAP stays
\* long and, when length < capacity and the reallocation succeeds, gets
\* capacity = length; an inline value is left untouched.
C24_ShrinkToFit ==
    [][\A i \in made :
          (last'.op = "shrink_to_fit" /\ last'.i = i) =>
              LET v == vals[i]
                  w == vals'[i]
              IN  /\ ~aborted'
                  /\ IF ~v.is_long THEN vals' = vals /\ heap' = heap
                     ELSE /\ ~w.is_long <=> v.llen <= ZSTR_SSO_CAP - 1
                          /\ (w.is_long /\ v.llen < v.lcap /\ ~last'.failed)
                                 => w.lcap = v.llen]_vars

(* ------------------------------------------ the growth of zstr_cat_len *)
\* The head of zstr_cat_len, one statement or loop iteration per step: arg
\* holds the form, capacity and length of *s and the src_len argument, out
\* the locals req_cap and new_cap and the position in the function ("entry",
\* "while", then "reserve": the call of zstr_reserve(s, new_cap), or "copy":
\* no growth).
\* capacities a value can have, lengths up to them, and src_len over the
\* whole of size_t
GrowCaps == {ZSTR_SSO_CAP, 24, 32, 46, 2 ^ (SizeBits - 1), SizeMod - 1}
GrowSrcLens ==
    {0, 1, 2, 24, 2 ^ (SizeBits - 1), 3 * 2 ^ (SizeBits - 2), 7 * 2 ^ (SizeBits - 3),
     SizeMod - 24, SizeMod - 1}

InitCatGrow ==
    \E is_long \in BOOLEAN, src_len \in GrowSrcLens :
        \E cap \in IF is_long THEN GrowCaps ELSE {ZSTR_SSO_CAP} :
            \E cur_len \in {0, ZSTR_SSO_CAP - 1, cap} :
                /\ vals = [i \in Slots |-> zstr_init]
                /\ made = {}
                /\ heap = [p \in Addr |-> << >>]
                /\ ext = {}
                /\ last = NoCall
                /\ budget = 0
                /\ aborted = FALSE
                /\ cursor = 0
                /\ arg = [is_long |-> is_long, cap |-> cap, cur_len |-> cur_len,
                          src_len |-> src_len]
                /\ it = NoIter
                /\ out = [pc |-> "entry", req_cap |-> 0, new_cap |-> 0]

CatGrowStep(o) ==
    /\ out' = o
    /\ UNCHANGED <<vals, made, heap, ext, last, budget, aborted, cursor, arg, it>>

\* req_cap = cur_len + src_len; if (req_cap >= cap) { new_cap = cap; ... }
CatLenEntry ==
    LET req_cap == SzAdd(arg.cur_len, arg.src_len)
        cap == IF arg.is_long THEN arg.cap ELSE ZSTR_SSO_CAP
    IN  /\ out.pc = "entry"
        /\ CatGrowStep(IF req_cap >= cap
                       THEN [pc |-> "while", req_cap |-> req_cap,
                             new_cap |-> IF cap = 0 THEN ZSTR_SSO_CAP ELSE cap]
                       ELSE [pc |-> "copy", req_cap |-> req_cap, new_cap |-> 0])

\* one iteration of while (new_cap <= req_cap) new_cap = Z_GROWTH_FACTOR(new_cap);
CatLenWhile ==
    /\ out.pc = "while"
    /\ out.new_cap <= out.req_cap
    /\ CatGrowStep([out EXCEPT !.new_cap = Z_GROWTH_FACTOR(@) % SizeMod])

\* the loop ends: zstr_reserve(s, new_cap)
CatLenReserve ==
    /\ out.pc = "while"
    /\ out.new_cap > out.req_cap
    /\ CatGrowStep([out EXCEPT !.pc = "reserve"])

NextCatGrow == CatLenEntry \/ CatLenWhile \/ CatLenReserve

\* the function runs: a statement that can execute does
SpecCatGrow == InitCatGrow /\ [][NextCatGrow]_vars /\ WF_vars(NextCatGrow)

RECURSIVE GrowthSeq(_, _)
\* the k-th value of the sequence cap, f(cap), f(f(cap)), ... in size_t
GrowthSeq(cap, k) ==
    IF k = 0 THEN cap ELSE Z_GROWTH_FACTOR(GrowthSeq(cap, k - 1)) % SizeMod
\* the first value of the sequence above req, -1 when there is none (the
\* sequence is periodic after at most SizeBits + 1 values)
FirstAbove(cap, req) ==
    LET ks == { k \in 0..(2 * SizeBits) : GrowthSeq(cap, k) > req }
    IN  IF ks = {} THEN -1
        ELSE GrowthSeq(cap, CHOOSE k \in ks : \A j \in ks : k <= j)
CatGrowDone ==
    \/ out.pc = "copy"
    \/ /\ out.pc = "reserve"
       /\ out.new_cap = FirstAbove(IF arg.is_long THEN arg.cap ELSE ZSTR_SSO_CAP,
                                   out.req_cap)

\* C25: when zstr_cat_len has to grow, the capacity computation terminates,
\* for every size_t length, capacity and src_len (wrapping sums and products
\* included), and the capacity it requests is the first value above
\* cur_len + src_len in the sequence cap, f(cap), f(f(cap)), ... with
\* f(c) = (c == 0 ? 32 : c * 2).
C25_GrowthRequest == (out.pc = "entry") ~> CatGrowDone

\* C26: zstr_cat_len, zstr_push_char and zstr_fmt never write beyond the
\* buffer in use at the moment of the write (inline: indices 0..ZSTR_SSO_CAP-1,
\* heap: indices 0..capacity): the growth comes before the copy, and the
\* terminator written after the new content has room.  The bytes written are
\* those at the indices len0 .. len0 + n, n the number of bytes appended.
C26_WritesInside ==
    [][\A i \in made :
          (last'.op \in {"cat_len", "push_char", "fmt"} /\ last'.i = i) =>
              LET v == vals'[i]
                  mem == zstr_data(v, heap')
                  hi == last'.len0 + Len(last'.a)
              IN  IF last'.ret = Z_OK
                  THEN /\ Len(mem) = IF v.is_long THEN v.lcap + 1 ELSE ZSTR_SSO_CAP
                       /\ hi < Len(mem)
                       /\ SubSeq(mem, last'.len0 + 1, hi) = last'.a
                       /\ mem[hi + 1] = 0
                  ELSE vals' = vals /\ heap' = heap]_vars
\* an append that fills the inline buffer moved to the heap first, and one
\* that fills the heap buffer left the terminator in its last byte
C26_Witness ==
    /\ last.op \in {"cat_len", "push_char", "fmt"}
    /\ last.ret = Z_OK
    /\ vals[1].is_long
    /\ vals[1].llen = vals[1].lcap
    /\ ~last.long0

\* C27: every view a split advance yields lies inside the source view, the
\* cursor never exceeds source.len, and the delimiter scan never leaves the
\* source (a scan that does is stopped, or finds its match behind the source).
C27_SplitInside ==
    /\ ~aborted
    /\ it.current_pos <= it.source.len
    /\ \A k \in 1..Len(out.parts) :
           LET w == out.parts[k]
           IN  /\ w.off >= it.source.off
               /\ (w.off - it.source.off) + w.len <= it.source.len

\* C28: zstr_is_valid_utf8, zstr_next_rune and zstr_count_runes never read a
\* byte behind the terminator of the value (an offset above length()),
\* whatever the content, a string that ends with a lone lead byte included.
C28_ReadsUpToTerminator ==
    (last.op \in {"is_valid_utf8", "next_rune", "count_runes"})
        => (~aborted /\ out.hi <= Length(1))

\* zstr_is_valid_utf8 returns true on the value
Accepted == zstr_is_valid_utf8(vals[1], heap, <<0>>, "overrun").ret
\* the code points a well-formed string encodes: one for each byte that is not
\* a continuation byte
CodePoints(s) == Cardinality({ k \in 1..Len(s) : ~InRange(s[k], 128, 191) })

\* C29: on a string without 0x00 that zstr_is_valid_utf8 accepts, the decoder
\* never takes its error path: from the start, each zstr_next_rune advances by
\* the encoded length of the sequence and returns its scalar, the advances add
\* up to length(), and zstr_count_runes is the number of code points; on every
\* string zstr_count_runes returns a count <= length().
C29_DecoderAgrees ==
    [][/\ last'.op = "count_runes" =>
             /\ out'.val <= Length(1)
             /\ Accepted => out'.val = CodePoints(Content(1))
       /\ (last'.op = "next_rune" /\ Accepted) =>
             LET m == zstr_data(vals[1], heap)
             IN  IF m[cursor + 1] = 0
                 THEN cursor = Length(1) /\ cursor' = cursor
                 ELSE /\ cursor' = cursor + LeadLen(m[cursor + 1])
                      /\ cursor' <= Length(1)
                      /\ out'.val = Scalar(m, cursor)]_vars
\* "\xC2\x80A" was counted as two code points
C29_Witness ==
    /\ last.op = "count_runes" /\ Accepted /\ ~HasByte(Content(1), 0)
    /\ Content(1) = <<194, 128, 65>> /\ out.val = 2

\* the holders of the heap buffer a: the long values that point to it, and the
\* caller if zstr_take gave it away
Owners(a) ==
    Cardinality({ i \in made : vals[i].is_long /\ vals[i].ptr = a })
        + (IF a \in ext THEN 1 ELSE 0)

\* C30: across the calls on two values (construct, duplicate, reserve, append,
\* shrink_to_fit, replace, adopt, release, destroy) every live heap buffer has
\* exactly one owner, a long value or the caller after release; every pointer
\* a value or the caller holds is live, so that no call frees a buffer a
\* second time or uses a freed one; and a buffer an operation replaced is
\* free afterwards (no live buffer is left without owner).
C30_SingleOwner ==
    ~aborted =>
        /\ \A i \in made : vals[i].is_long => heap[vals[i].ptr] # << >>
        /\ \A p \in ext : heap[p] # << >>
        /\ \A a \in Addr : heap[a] # << >> => Owners(a) = 1
\* a replace on a long value with a second long value alive: the old buffer
\* was freed and the two values own the two live buffers
C30_Witness ==
    /\ last.op = "replace" /\ last.ret = Z_OK /\ last.long0 /\ ~aborted
    /\ made = Slots /\ vals[1].is_long /\ vals[2].is_long
    /\ Content(last.i) # Content(Other(last.i))
    /\ Cardinality(FreeAddrs(heap)) = MaxAddr - 2

============================================================================
